---- MODULE Spec2Model ----
(***************************************************************************)
(* Track (vue-media-annotator/track.ts): the frame-indexed feature store   *)
(* of one track, its keyframe index, its begin/end range and its revision  *)
(* counter, with the operations that read and mutate them.                 *)
(*                                                                         *)
(* Representation                                                          *)
(*   - an optional field of a JS object is a set with at most one element: *)
(*     {} is "key absent / undefined", {v} is "present with value v";      *)
(*   - a sparse JS array is a function whose DOMAIN is the set of present  *)
(*     indices;                                                            *)
(*   - a JS number x is carried as the integer x * Scale, where Scale is a *)
(*     multiple of 2 and of every possible keyframe distance, so that the  *)
(*     halves given as input and every interpolated value are exact;       *)
(*   - an operation returns [t |-> the track afterwards, err |-> the error *)
(*     it raised, or NoError].  The track in t is the object as the throw  *)
(*     left it.                                                            *)
(*   - the injected notifier is a flag (attached or not); what it was     *)
(*     called with during the current call is the sequence "notified" of   *)
(*     [event, oldValue] records, oldValue as the callback finds it when   *)
(*     it is called.                                                       *)
(* The geometry collection of a feature and the meta map of a track are    *)
(* opaque payload no operation below reads; they are left out.             *)
(***************************************************************************)
EXTENDS Integers, Sequences, FiniteSets, TLC

\* ------------------------------------------------------------------ bounds
MaxFrame == 2
MaxCalls == 2
MaxFeatures == 2

Frames == 0..MaxFrame

\* ------------------------------------------------------- numbers and nulls
Infinity == 1000000
Undefined == -1

RECURSIVE LCM(_, _)
LCM(n, acc) == IF n <= 1 THEN acc
               ELSE LCM(n - 1, CHOOSE m \in acc..(acc * n) : m % acc = 0 /\ m % n = 0
                                  /\ \A k \in acc..(acc * n) : (k % acc = 0 /\ k % n = 0) => m <= k)
Scale == 2 * LCM(MaxFrame, 1)
One == Scale
Half == Scale \div 2

\* Math.round: nearest integer, ties towards +infinity
MathRound(x) == Scale * ((2 * x + Scale) \div (2 * Scale))

Absent == {}
Has(x) == x # {}
Val(x) == CHOOSE v \in x : TRUE
Truthy(x) == x = {TRUE}

NoError == ""
ErrKeyframe == "setFeature must be called with keyframe=true"
ErrXor == "keyframe must not XOR bounds"
ErrSparse == "features must be initialized with sparse array"
ErrOnlyKeyframe == "only keyframe cannot be removed"
ErrCannotSplit == "Cannot split track"
ErrMisaligned == "Track bounds mis-aligned with feature array"
ErrBoundsMissing == "Bounds cannot be missing from interpolated features"
ErrTypeError == "TypeError"

SetMin(S) == CHOOSE m \in S : \A x \in S : m <= x
SetMax(S) == CHOOSE m \in S : \A x \in S : m >= x

\* ---------------------------------------------------------------- features
EmptyObject == [frame |-> Undefined, keyframe |-> Absent, bounds |-> Absent,
                interpolate |-> Absent, attributes |-> Absent]

\* { ...f, ...g }
Spread(f, g) ==
  [frame       |-> IF g.frame # Undefined THEN g.frame ELSE f.frame,
   keyframe    |-> IF Has(g.keyframe) THEN g.keyframe ELSE f.keyframe,
   bounds      |-> IF Has(g.bounds) THEN g.bounds ELSE f.bounds,
   interpolate |-> IF Has(g.interpolate) THEN g.interpolate ELSE f.interpolate,
   attributes  |-> IF Has(g.attributes) THEN g.attributes ELSE f.attributes]

RoundBounds(b) == <<MathRound(b[1]), MathRound(b[2]), MathRound(b[3]), MathRound(b[4])>>

\* sparse arrays
Put(arr, i, v) == [j \in (DOMAIN arr) \cup {i} |-> IF j = i THEN v ELSE arr[j]]
Delete(arr, i) == [j \in (DOMAIN arr) \ {i} |-> arr[j]]
\* Array.prototype.slice(from, to) for 0 <= from: indices shift down by from
Slice(arr, from, to) ==
  [j \in {i - from : i \in {k \in DOMAIN arr : k >= from /\ k < to}} |-> arr[j + from]]
EmptyArray == [j \in {} |-> EmptyObject]

RECURSIVE Ascending(_)
Ascending(S) == IF S = {} THEN <<>> ELSE <<SetMin(S)>> \o Ascending(S \ {SetMin(S)})

\* ------------------------------------------------------------- listUtils
ListInsert(arr, v) ==
  IF \E i \in 1..Len(arr) : arr[i] = v THEN arr
  ELSE LET lo == SelectSeq(arr, LAMBDA x : x < v)
           hi == SelectSeq(arr, LAMBDA x : x > v)
       IN  lo \o <<v>> \o hi
ListRemove(arr, v) == SelectSeq(arr, LAMBDA x : x # v)
\* insertion index, 0-based
BinarySearch(arr, target) == Cardinality({i \in 1..Len(arr) : arr[i] < target})
\* predecessor and successor around a 0-based insertion index, {} for null
GetSurroundingElements(arr, position) ==
  IF position <= 0 \/ position >= Len(arr) THEN {}
  ELSE {<<arr[position], arr[position + 1]>>}

\* -------------------------------------------------------------- the track
Ok(t) == [t |-> t, err |-> NoError]
Throw(t, e) == [t |-> t, err |-> e]

IsInitialized(t) == Len(t.featureIndex) > 0

\* length without the + 1
TrackLengthExclusive(t) == IF t.begin = Infinity THEN 0 - Infinity ELSE t.end - t.begin
TrackLength(t) == IF t.begin = Infinity THEN 0 - Infinity ELSE (t.end - t.begin) + 1

Note(name, oldValue) == [event |-> name, oldValue |-> oldValue]

\* notify that bumps the revision and broadcasts before the first keyframe too
NotifyUninitialized(t, name, oldValue) ==
  LET t1 == [t EXCEPT !.revision = @ + 1]
  IN  IF t.notifier THEN [t1 EXCEPT !.notified = Append(@, Note(name, oldValue))] ELSE t1
Notify(t, name, oldValue) ==
  IF IsInitialized(t)
  THEN LET t1 == [t EXCEPT !.revision = @ + 1]
       IN  IF t.notifier THEN [t1 EXCEPT !.notified = Append(@, Note(name, oldValue))] ELSE t1
  ELSE t

SetNotifier(t, notifier) == [t EXCEPT !.notifier = notifier]

SanityCheckFeatures(features) ==
  IF DOMAIN features = {} THEN NoError
  ELSE LET i == SetMin(DOMAIN features)
       IN  IF features[i].frame # i THEN ErrSparse ELSE NoError

\* the index built by the forEach, and whether the forEach threw
RepopulateIndex(features) ==
  LET order == Ascending(DOMAIN features)
  IN  SelectSeq([k \in 1..Len(order) |-> features[order[k]]],
                LAMBDA f : Truthy(f.keyframe) /\ Has(f.bounds))
RepopulateThrows(features) ==
  \E i \in DOMAIN features : Truthy(features[i].keyframe) # Has(features[i].bounds)
RepopulateInterpolatedFrames(features) ==
  LET kf == RepopulateIndex(features)
  IN  [k \in 1..Len(kf) |-> kf[k].frame]

NewTrack(trackId, begin, end, features, confidencePairs, attributes, notifier) ==
  LET t == [trackId |-> trackId, attributes |-> attributes,
            confidencePairs |-> confidencePairs, features |-> features,
            featureIndex |-> RepopulateInterpolatedFrames(features),
            begin |-> begin, end |-> end, revision |-> 1,
            notifier |-> notifier, notified |-> <<>>]
  IN  IF SanityCheckFeatures(features) # NoError THEN Throw(t, ErrSparse)
      ELSE IF RepopulateThrows(features) THEN Throw(t, ErrXor)
      ELSE Ok(t)

GetNextKeyframe(t, frame) ==
  LET c == {i \in DOMAIN t.features : i >= frame}
  IN  IF c = {} THEN Undefined ELSE t.features[SetMin(c)].frame

GetPreviousKeyframe(t, frame) ==
  LET c == {i \in DOMAIN t.features : i < frame + 1}
  IN  IF c = {} THEN Undefined ELSE t.features[SetMax(c)].frame

MaybeExpandBounds(t, frame) ==
  LET oldval == <<t.begin, t.end>>
  IN  IF frame < t.begin THEN Notify([t EXCEPT !.begin = frame], "bounds", oldval)
      ELSE IF frame > t.end THEN Notify([t EXCEPT !.end = frame], "bounds", oldval)
      ELSE t

MaybeShrinkBounds(t, frame) ==
  LET oldval == <<t.begin, t.end>> IN
  IF frame = t.begin THEN
    LET nextFrame == GetNextKeyframe(t, t.begin + 1)
    IN  Notify(IF nextFrame = Undefined
               THEN [t EXCEPT !.begin = Infinity, !.end = 0]
               ELSE [t EXCEPT !.begin = nextFrame], "bounds", oldval)
  ELSE IF frame = t.end THEN
    LET previousFrame == GetPreviousKeyframe(t, t.end - 1)
    IN  Notify(IF previousFrame = Undefined
               THEN [t EXCEPT !.end = 0, !.begin = Infinity]
               ELSE [t EXCEPT !.end = previousFrame], "bounds", oldval)
  ELSE t

CanSplit(t, frame) == frame > t.begin /\ frame <= t.end

SetFeature(t, feature) ==
  LET f == IF feature.frame \in DOMAIN t.features THEN t.features[feature.frame]
           ELSE EmptyObject
      merged == Spread(f, feature)
      stored == IF Has(feature.bounds)
                THEN [merged EXCEPT !.bounds = {RoundBounds(Val(feature.bounds))}]
                ELSE merged
      t1 == [t EXCEPT !.features = Put(t.features, feature.frame, stored)]
      t2 == [t1 EXCEPT !.featureIndex = ListInsert(@, feature.frame)]
      t3 == MaybeExpandBounds(t2, feature.frame)
      t4 == IF Len(t3.featureIndex) = 1
            THEN IF feature.frame # t3.begin THEN MaybeShrinkBounds(t3, t3.begin)
                 ELSE IF feature.frame # t3.end THEN MaybeShrinkBounds(t3, t3.end)
                 ELSE t3
            ELSE t3
  IN  IF ~Truthy(stored.keyframe) THEN Throw(t1, ErrKeyframe)
      ELSE Ok(Notify(t4, "feature", {f}))

\* Track.interpolate: {} for null
Interpolate(frame, d0set, d1set) ==
  IF d0set = {} THEN [val |-> {}, err |-> ErrTypeError]
  ELSE LET d0 == Val(d0set) IN
    IF ~Truthy(d0.interpolate) THEN [val |-> {}, err |-> NoError]
    ELSE IF d1set = {} THEN [val |-> {}, err |-> ErrTypeError]
    ELSE LET d1 == Val(d1set)
             len == d1.frame - d0.frame
             k == IF frame >= d0.frame THEN frame - d0.frame ELSE d0.frame - frame
             \* b = k / len, a = 1 - b
             keyframe == (k = 0) \/ (len - k = 0)
         IN  IF Has(d0.bounds) /\ Has(d1.bounds)
             THEN LET d0bounds == Val(d0.bounds)
                      d1bounds == Val(d1.bounds)
                      box == [i \in 1..4 |->
                                ((d0bounds[i] * (len - k)) + (d1bounds[i] * k)) \div len]
                  IN  [val |-> {[frame |-> frame, keyframe |-> {keyframe},
                                 bounds |-> {<<box[1], box[2], box[3], box[4]>>},
                                 interpolate |-> {TRUE}, attributes |-> Absent]},
                       err |-> NoError]
             ELSE [val |-> {}, err |-> ErrBoundsMissing]

At(t, i) == IF i \in DOMAIN t.features THEN {t.features[i]} ELSE {}

\* [exact_feature_match, previous_keyframe, next_keyframe], {} for null/undefined
GetFeature(t, frame) ==
  IF frame \in DOMAIN t.features
  THEN [val |-> <<At(t, frame), At(t, frame), At(t, frame)>>, err |-> NoError]
  ELSE IF frame < t.begin \/ frame > t.end
  THEN IF frame <= t.begin
       THEN [val |-> <<{}, At(t, t.begin), {}>>, err |-> NoError]
       ELSE [val |-> <<{}, {}, At(t, t.end)>>, err |-> NoError]
  ELSE LET position == BinarySearch(t.featureIndex, frame)
           maybeInterpolated == GetSurroundingElements(t.featureIndex, position)
       IN  IF maybeInterpolated # {}
           THEN LET d0 == At(t, Val(maybeInterpolated)[1])
                    d1 == At(t, Val(maybeInterpolated)[2])
                    r == Interpolate(frame, d0, d1)
                IN  [val |-> <<r.val, d0, d1>>, err |-> r.err]
           ELSE IF Len(t.featureIndex) # 0
           THEN [val |-> <<{}, {}, {}>>, err |-> ErrMisaligned]
           ELSE [val |-> <<{}, {}, {}>>, err |-> NoError]

OptTruthy(setOfFeature, field) ==
  setOfFeature # {} /\ Truthy(Val(setOfFeature)[field])

CanInterpolate(t, frame) ==
  LET g == GetFeature(t, frame)
      real == g.val[1]
      lower == g.val[2]
      upper == g.val[3]
  IN  [features |-> g.val, err |-> g.err,
       interpolate |-> OptTruthy(real, "interpolate")
                       \/ OptTruthy(lower, "interpolate")
                       \/ (lower = {} /\ OptTruthy(upper, "interpolate"))]

DeleteFeature(t, frame) ==
  LET feature == At(t, frame)
      t1 == IF OptTruthy(feature, "keyframe")
            THEN [t EXCEPT !.featureIndex = ListRemove(@, frame)] ELSE t
      t2 == [t1 EXCEPT !.features = Delete(@, frame)]
  IN  Ok(Notify(MaybeShrinkBounds(t2, frame), "feature", feature))

KeyframeAt(frame) == [EmptyObject EXCEPT !.frame = frame, !.keyframe = {TRUE}]

ToggleKeyframe(t, frame) ==
  LET c == CanInterpolate(t, frame)
      real == c.features[1]
      lower == c.features[2]
      upper == c.features[3]
  IN  IF c.err # NoError THEN Throw(t, c.err)
      ELSE IF real # {} /\ TrackLength(t) = 1 THEN Throw(t, ErrOnlyKeyframe)
      ELSE IF real # {} /\ ~OptTruthy(real, "keyframe")
      THEN SetFeature(t, Spread(Val(real), KeyframeAt(frame)))
      ELSE IF (lower # {} \/ upper # {}) /\ ~OptTruthy(real, "keyframe")
      THEN LET interFeature ==
                 IF upper # {} /\ frame > Val(upper).frame THEN upper
                 ELSE IF lower # {} /\ frame < Val(lower).frame THEN lower
                 ELSE {}
           IN  IF interFeature # {}
               THEN SetFeature(t, Spread(Val(interFeature), KeyframeAt(frame)))
               ELSE Ok(t)
      ELSE IF OptTruthy(real, "keyframe") THEN DeleteFeature(t, frame)
      ELSE Ok(t)

ToggleInterpolation(t, frame) ==
  LET c == CanInterpolate(t, frame)
      real == c.features[1]
      lower == c.features[2]
      upper == c.features[3]
      targetKeyframe == IF OptTruthy(real, "keyframe") THEN real
                        ELSE IF lower # {} THEN lower ELSE upper
  IN  IF c.err # NoError THEN Throw(t, c.err)
      ELSE IF targetKeyframe # {}
      THEN SetFeature(t, [Val(targetKeyframe) EXCEPT !.interpolate = {~c.interpolate}])
      ELSE Ok(t)

\* { ...attributes, [name]: value }
SetKey(map, name, value) ==
  [k \in (DOMAIN map) \cup {name} |-> IF k = name THEN value ELSE map[k]]
EmptyMap == [k \in {} |-> 0]

SetFeatureAttribute(t, frame, name, value) ==
  IF frame \in DOMAIN t.features
  THEN LET old == t.features[frame].attributes
           new == SetKey(IF Has(old) THEN Val(old) ELSE EmptyMap, name, value)
           t1 == [t EXCEPT !.features[frame].attributes = {new}]
       IN  Ok(Notify(t1, "feature", {t1.features[frame]}))
  ELSE Ok(t)

\* ------------------------------------------------- labels and attributes
FindIndex(pairs, name) ==
  LET hits == {i \in 1..Len(pairs) : pairs[i][1] = name}
  IN  IF hits = {} THEN 0 ELSE SetMin(hits)

RemoveAt(seq, i) == [k \in 1..(Len(seq) - 1) |-> IF k < i THEN seq[k] ELSE seq[k + 1]]
InsertAt(seq, i, v) ==
  [k \in 1..(Len(seq) + 1) |-> IF k < i THEN seq[k] ELSE IF k = i THEN v ELSE seq[k - 1]]

\* no sort
SortSkipped(pairs) == pairs
\* Array.prototype.sort((a, b) => b[1] - a[1]), stable
RECURSIVE SortDescending(_)
SortDescending(pairs) ==
  IF Len(pairs) <= 1 THEN pairs
  ELSE LET top == SetMax({pairs[i][2] : i \in 1..Len(pairs)})
           first == SetMin({i \in 1..Len(pairs) : pairs[i][2] = top})
       IN  <<pairs[first]>> \o SortDescending(RemoveAt(pairs, first))

\* the same keeping the other labels at a confidence of 1 or more
SetTypeKeeping(t, trackType, confidenceVal, replace) ==
  Notify([t EXCEPT !.confidencePairs =
            <<<<trackType, One>>>> \o SelectSeq(@, LAMBDA p : p[1] # trackType)],
         "confidencePairs", t.confidencePairs)

\* replace is "" when the argument is not given.  old is the array object
\* this.confidencePairs: below 1 that object is spliced and sorted in place, so
\* the notifier finds in it the list as the call left it.
SetType(t, trackType, confidenceVal, replace) ==
  IF confidenceVal >= One
  THEN Notify([t EXCEPT !.confidencePairs = <<<<trackType, One>>>>],
              "confidencePairs", t.confidencePairs)
  ELSE LET old == t.confidencePairs
           index == FindIndex(old, trackType)
           \* splice(index, 1, item), or splice(-1, 0, item) when not found
           spliced == IF index > 0 THEN [old EXCEPT ![index] = <<trackType, confidenceVal>>]
                      ELSE IF Len(old) = 0 THEN <<<<trackType, confidenceVal>>>>
                      ELSE InsertAt(old, Len(old), <<trackType, confidenceVal>>)
           replaceIndex == IF replace = "" THEN 0 ELSE FindIndex(spliced, replace)
           replaced == IF replaceIndex > 0 THEN RemoveAt(spliced, replaceIndex) ELSE spliced
           sorted == SortDescending(replaced)
       IN  Notify([t EXCEPT !.confidencePairs = sorted], "confidencePairs", sorted)

RemoveTypes(t, types) ==
  IF Len(t.confidencePairs) > 0
  THEN Notify([t EXCEPT !.confidencePairs = SelectSeq(@, LAMBDA p : p[1] \notin types)],
              "confidencePairs", t.confidencePairs)
  ELSE t

SetAttribute(t, key, value) ==
  LET oldval == IF key \in DOMAIN t.attributes THEN {t.attributes[key]} ELSE {}
  IN  Notify([t EXCEPT !.attributes = SetKey(@, key, value)],
             "attributes", [key |-> key, value |-> oldval])

\* --------------------------------------------------------------- merge
RECURSIVE MergePairs(_, _)
MergePairs(t, pairs) ==
  IF pairs = <<>> THEN t
  ELSE LET pair == Head(pairs)
           match == FindIndex(t.confidencePairs, pair[1])
           t1 == IF match = 0 \/ t.confidencePairs[match][2] < pair[2]
                 THEN SetType(t, pair[1], pair[2], "") ELSE t
       IN  MergePairs(t1, Tail(pairs))

\* the same adopting every incoming feature
RECURSIVE MergeFeaturesAlways(_, _, _)
MergeFeaturesAlways(t, features, order) ==
  IF order = <<>> THEN Ok(t)
  ELSE LET r == SetFeature(t, features[Head(order)])
       IN  IF r.err # NoError THEN r
           ELSE MergeFeaturesAlways(r.t, features, Tail(order))
\* other.features.forEach, stopping at the first throw
RECURSIVE MergeFeatures(_, _, _)
MergeFeatures(t, features, order) ==
  IF order = <<>> THEN Ok(t)
  ELSE LET f == features[Head(order)]
           g == GetFeature(t, f.frame)
       IN  IF g.err # NoError THEN Throw(t, g.err)
           ELSE IF g.val[1] = {}
           THEN LET r == SetFeature(t, f)
                IN  IF r.err # NoError THEN r
                    ELSE MergeFeatures(r.t, features, Tail(order))
           ELSE MergeFeatures(t, features, Tail(order))

RECURSIVE MergeAttributes(_, _, _)
MergeAttributes(t, attributes, keys) ==
  IF keys = {} THEN t
  ELSE LET key == CHOOSE k \in keys : TRUE
           t1 == IF key \notin DOMAIN t.attributes
                 THEN SetAttribute(t, key, attributes[key]) ELSE t
       IN  MergeAttributes(t1, attributes, keys \ {key})

\* the same without the features
MergeOnePairsOnly(t, other) ==
  LET t1 == MergePairs(t, other.confidencePairs)
  IN  Ok(MergeAttributes(t1, other.attributes, DOMAIN other.attributes))
MergeOne(t, other) ==
  LET t1 == MergePairs(t, other.confidencePairs)
      r == MergeFeatures(t1, other.features, Ascending(DOMAIN other.features))
  IN  IF r.err # NoError THEN r
      ELSE Ok(MergeAttributes(r.t, other.attributes, DOMAIN other.attributes))

RECURSIVE Merge(_, _)
Merge(t, others) ==
  IF others = <<>> THEN Ok(t)
  ELSE LET r == MergeOne(t, Head(others))
       IN  IF r.err # NoError THEN r ELSE Merge(r.t, Tail(others))

\* ------------------------------------------------- transport (TrackData)
\* Number.prototype.toString and parseInt(s, 10) on a non-negative integer
RECURSIVE NumberToString(_)
NumberToString(n) ==
  IF n < 10 THEN <<n>> ELSE NumberToString(n \div 10) \o <<n % 10>>
RECURSIVE ParseInt(_, _)
ParseInt(digits, acc) ==
  IF digits = <<>> THEN acc ELSE ParseInt(Tail(digits), (10 * acc) + Head(digits))

\* the same without the keyframe default
RECURSIVE SparseNoDefault(_, _)
SparseNoDefault(dense, acc) ==
  IF dense = <<>> THEN acc
  ELSE LET f == Head(dense)
       IN  SparseNoDefault(Tail(dense), Put(acc, f.frame, Spread(EmptyObject, f)))
\* json.features.forEach((f) => sparseFeatures[f.frame] = { keyframe: true, ...f })
RECURSIVE Sparse(_, _)
Sparse(dense, acc) ==
  IF dense = <<>> THEN acc
  ELSE LET f == Head(dense)
       IN  Sparse(Tail(dense),
                  Put(acc, f.frame, Spread([EmptyObject EXCEPT !.keyframe = {TRUE}], f)))

FromJSON(json) ==
  NewTrack(ParseInt(NumberToString(json.trackId), 0), json.begin, json.end,
           Sparse(json.features, EmptyArray), json.confidencePairs, json.attributes,
           FALSE)

\* forEach over the present entries, in ascending index order
CondenseFeatures(features) ==
  LET order == Ascending(DOMAIN features)
  IN  [k \in 1..Len(order) |-> features[order[k]]]

Serialize(t) ==
  [trackId |-> t.trackId, attributes |-> t.attributes,
   confidencePairs |-> t.confidencePairs, features |-> CondenseFeatures(t.features),
   begin |-> t.begin, end |-> t.end]

\* thresholds[name] || fallback: a missing key and a threshold of 0 are both falsy
ThresholdOr(thresholds, name, fallback) ==
  IF name \in DOMAIN thresholds /\ thresholds[name] # 0 THEN thresholds[name] ELSE fallback

TrackExceedsThreshold(pairs, thresholds) ==
  LET defaultThresh == ThresholdOr(thresholds, "default", 0)
  IN  SelectSeq(pairs, LAMBDA p : p[2] >= ThresholdOr(thresholds, p[1], defaultThresh))

\* x || y on frame numbers
OrElse(x, y) == IF x = Undefined \/ x = 0 THEN y ELSE x

\* the two tracks split builds: val is {} when split throws, else
\* {<<first, second>>}
SplitTracks(t, frame, id1, id2) ==
  IF ~CanSplit(t, frame) THEN [val |-> {}, err |-> ErrCannotSplit]
  ELSE LET r1 == FromJSON([trackId |-> id1, begin |-> t.begin,
                           end |-> OrElse(GetPreviousKeyframe(t, frame - 1), t.begin),
                           features |-> CondenseFeatures(Slice(t.features, t.begin, frame)),
                           confidencePairs |-> t.confidencePairs,
                           attributes |-> t.attributes])
           r2 == FromJSON([trackId |-> id2, begin |-> OrElse(GetNextKeyframe(t, frame), t.end),
                           end |-> t.end,
                           features |-> CondenseFeatures(Slice(t.features, frame, Infinity)),
                           confidencePairs |-> t.confidencePairs,
                           attributes |-> t.attributes])
       IN  IF r1.err # NoError THEN [val |-> {}, err |-> r1.err]
           ELSE IF r2.err # NoError THEN [val |-> {}, err |-> r2.err]
           ELSE [val |-> {<<r1.t, r2.t>>}, err |-> NoError]

\* a split that hands its frames over: the source keeps only [begin, frame)
SplitTruncating(t, frame, id1, id2) ==
  LET r == SplitTracks(t, frame, id1, id2)
      t1 == [t EXCEPT !.end = frame - 1]
  IN  [t |-> IF r.err = NoError THEN Notify(t1, "bounds", <<t.begin, t.end>>) ELSE t,
       val |-> r.val, err |-> r.err]
\* t is the source track after the call
Split(t, frame, id1, id2) ==
  LET r == SplitTracks(t, frame, id1, id2)
  IN  [t |-> t, val |-> r.val, err |-> r.err]

\* ------------------------------------------------------------ the state
VARIABLES
  trackId, attributes, confidencePairs,   \* fields of the track under test
  features, featureIndex, begin, end, revision,
  notifier, \* whether a notifier is attached to the track
  notified, \* what the notifier was called with during the last call
  ctor,     \* how the track was constructed
  failed,   \* TRUE once an operation on the track has thrown
  last,     \* the last call: [op, frame, err]
  ret,      \* what the last call returned, {} when nothing or when it threw
  json,     \* the record under transport, {} when there is none
  others,   \* the list the last call handed to merge, <<>> for any other call
  arg,      \* the arguments of the last call where they are followed, else <<>>
  calls,    \* the number of mutating calls made on the track
  prior,    \* in a followed run of toggles, the track before each toggle
  typeList, \* the TypeList component, <<>> when none is mounted
  trackItem, \* the TrackItem component, <<>> when none is mounted
  control   \* the Control component, <<>> when none is mounted

fields == <<trackId, attributes, confidencePairs, features, featureIndex, begin, end, revision,
            notifier>>
vars == <<trackId, attributes, confidencePairs, features, featureIndex, begin, end, revision,
          notifier, notified, ctor, failed, last, ret, json, others, arg, calls,
          prior, typeList, trackItem, control>>
components == <<typeList, trackItem, control>>
NoComponents == typeList = <<>> /\ trackItem = <<>> /\ control = <<>>

This == [trackId |-> trackId, attributes |-> attributes,
         confidencePairs |-> confidencePairs, features |-> features,
         featureIndex |-> featureIndex, begin |-> begin, end |-> end,
         revision |-> revision, notifier |-> notifier, notified |-> <<>>]

Assign(t) ==
  /\ trackId' = t.trackId
  /\ attributes' = t.attributes
  /\ confidencePairs' = t.confidencePairs
  /\ features' = t.features
  /\ featureIndex' = t.featureIndex
  /\ begin' = t.begin
  /\ end' = t.end
  /\ revision' = t.revision
  /\ notifier' = t.notifier
  /\ notified' = t.notified

Call(op, frame, err) == [op |-> op, frame |-> frame, err |-> err]
Queries == {"split"}

\* ------------------------------------------------------------ the inputs
BoundsA == <<0, 0, 10 * One, 10 * One>>
BoundsB == <<(10 * One) + Half, (10 * One) + Half, 20 * One, 20 * One>>

\* arguments of setFeature: with or without the keyframe flag, with or without
\* bounds, or with the flag set to false
FeatureInputs ==
  {f \in [frame : Frames, keyframe : {Absent, {TRUE}, {FALSE}},
          bounds : {Absent, {BoundsB}}, interpolate : {Absent},
          attributes : {Absent}] :
     f.keyframe = {FALSE} => f.bounds = Absent}

AttributeNames == {"a"}
AttributeValues == {1}

\* arguments of setType (trackType, confidenceVal, replace), removeTypes and
\* setAttribute; replace is not read when the confidence is 1
SetTypeInputs ==
  {<<"fish", Half, "">>, <<"fish", One, "">>, <<"dog", Half, "">>, <<"dog", Half, "fish">>}
RemoveTypesInputs == {{"fish"}}
TrackAttributeKeys == {"k"}
TrackAttributeValues == {2}

\* persisted features: keyframes with bounds, the keyframe flag not stored
StoredFeature(frame, b, i) ==
  [frame |-> frame, keyframe |-> Absent, bounds |-> {b}, interpolate |-> i,
   attributes |-> Absent]
StoredFeatureSeqs ==
  {<<>>}
  \cup {<<StoredFeature(f, BoundsA, i)>> : f \in Frames, i \in {Absent, {TRUE}}}
  \cup {<<StoredFeature(fg[1], BoundsA, {TRUE}), StoredFeature(fg[2], BoundsB, Absent)>> :
          fg \in {p \in Frames \X Frames : p[1] < p[2]}}

FrameSetOf(dense) == {dense[k].frame : k \in 1..Len(dense)}

\* records as serialize writes them: begin and end are the first and last feature
StoredRecords ==
  {[trackId |-> 0, attributes |-> EmptyMap, confidencePairs |-> <<>>,
    features |-> d, begin |-> SetMin(FrameSetOf(d)), end |-> SetMax(FrameSetOf(d))] :
     d \in StoredFeatureSeqs \ {<<>>}}

\* the tracks handed to merge
OtherTracks ==
  {FromJSON([trackId |-> 1, attributes |-> pa[2], confidencePairs |-> pa[1],
             features |-> <<StoredFeature(f, BoundsB, Absent)>>,
             begin |-> f, end |-> f]).t :
     f \in Frames,
     pa \in {<<<<>>, EmptyMap>>, <<<<<<"fish", One>>>>, SetKey(EmptyMap, "k", 1)>>}}

\* the lists handed to merge: one track, or two tracks that carry a feature
\* only, the one with the later frame first
MergeInputs ==
  {<<o>> : o \in OtherTracks}
  \cup {<<o[1], o[2]>> :
          o \in {p \in OtherTracks \X OtherTracks :
                   /\ p[1].begin > p[2].begin
                   /\ p[1].confidencePairs = <<>>
                   /\ p[2].confidencePairs = <<>>}}

\* ------------------------------------------------------------ the actions
InitAs(t) ==
  /\ trackId = t.trackId
  /\ attributes = t.attributes
  /\ confidencePairs = t.confidencePairs
  /\ features = t.features
  /\ featureIndex = t.featureIndex
  /\ begin = t.begin
  /\ end = t.end
  /\ revision = t.revision
  /\ notifier = t.notifier
  /\ notified = t.notified

\* new Track(0, {notifier}), new Track(0, {begin: 0, end, notifier}), or
\* Track.fromJSON(record) followed by setNotifier(notifier)
Init ==
  /\ \/ /\ ctor = "default"
        /\ InitAs(NewTrack(0, Infinity, 0, EmptyArray, <<>>, EmptyMap, TRUE).t)
     \/ /\ ctor = "placeholder"
        /\ \E e \in Frames :
             InitAs(NewTrack(0, 0, e, EmptyArray, <<>>, EmptyMap, TRUE).t)
     \/ /\ ctor = "fromJSON"
        /\ \E r \in StoredRecords : InitAs(SetNotifier(FromJSON(r).t, TRUE))
  /\ failed = FALSE
  /\ last = Call("new", Undefined, NoError)
  /\ ret = {}
  /\ json = {}
  /\ others = <<>>
  /\ arg = <<>>
  /\ calls = 0
  /\ prior = <<>>
  /\ NoComponents

\* A mutating call returns or throws.  split and the other queries leave the
\* track as it was, so a run that goes on after a query is the run without it:
\* the model follows the track no further once a query has answered.
Effect(op, frame, r) ==
  /\ calls' = calls + 1
  /\ Assign(r.t)
  /\ last' = Call(op, frame, r.err)
  /\ failed' = (failed \/ r.err # NoError)
  /\ ret' = {}
  /\ UNCHANGED <<ctor, json, prior, components>>
Acted(op, frame, r) ==
  /\ calls < MaxCalls
  /\ last.op \notin Queries
  /\ Effect(op, frame, r)
  /\ arg' = <<>>
Returned(op, frame, r) ==
  /\ Acted(op, frame, r)
  /\ others' = <<>>

SetFeatureOp ==
  \E feature \in FeatureInputs :
    /\ Returned("setFeature", feature.frame, SetFeature(This, feature))

DeleteFeatureOp ==
  \E frame \in Frames :
    /\ Returned("deleteFeature", frame, DeleteFeature(This, frame))

ToggleKeyframeOp ==
  \E frame \in Frames :
    /\ Returned("toggleKeyframe", frame, ToggleKeyframe(This, frame))

ToggleInterpolationOp ==
  \E frame \in Frames :
    /\ Returned("toggleInterpolation", frame, ToggleInterpolation(This, frame))

SetFeatureAttributeOp ==
  \E frame \in Frames : \E name \in AttributeNames : \E value \in AttributeValues :
    /\ Returned("setFeatureAttribute", frame,
                SetFeatureAttribute(This, frame, name, value))

MergeOp ==
  \E list \in MergeInputs :
    /\ Acted("merge", Undefined, Merge(This, list))
    /\ others' = list

SetTypeOp ==
  \E a \in SetTypeInputs :
    /\ Returned("setType", Undefined, Ok(SetType(This, a[1], a[2], a[3])))

RemoveTypesOp ==
  \E types \in RemoveTypesInputs :
    /\ Returned("removeTypes", Undefined, Ok(RemoveTypes(This, types)))

SetAttributeOp ==
  \E key \in TrackAttributeKeys : \E value \in TrackAttributeValues :
    /\ Returned("setAttribute", Undefined, Ok(SetAttribute(This, key, value)))

SplitOp ==
  \E frame \in Frames :
    LET r == Split(This, frame, 1, 2)
    IN  /\ last.op \notin Queries
        /\ last' = Call("split", frame, r.err)
        /\ Assign(r.t)
        /\ ret' = r.val
        /\ others' = <<>>
        /\ UNCHANGED <<ctor, failed, json, arg, calls, prior, components>>

Next ==
  \/ SetFeatureOp
  \/ DeleteFeatureOp
  \/ ToggleKeyframeOp
  \/ ToggleInterpolationOp
  \/ SetFeatureAttributeOp
  \/ MergeOp
  \/ SetTypeOp
  \/ RemoveTypesOp
  \/ SetAttributeOp
  \/ SplitOp

Spec == Init /\ [][Next]_vars

\* ------------------------------------ toggleKeyframe twice on one frame
\* a track built by setFeature, deleteFeature and toggleInterpolation, then
\* toggleKeyframe(frame) and toggleKeyframe(frame) again; prior keeps the track
\* as it was before each of the two
BuildOp ==
  /\ prior = <<>>
  /\ \/ SetFeatureOp
     \/ DeleteFeatureOp
     \/ ToggleInterpolationOp

ToggleKeyframeTwiceOp ==
  \E frame \in Frames :
    LET r == ToggleKeyframe(This, frame)
    IN  /\ Len(prior) < 2
        /\ Len(prior) = 1 => frame = last.frame
        /\ prior' = Append(prior, This)
        /\ Assign(r.t)
        /\ last' = Call("toggleKeyframe", frame, r.err)
        /\ failed' = (failed \/ r.err # NoError)
        /\ ret' = {}
        /\ others' = <<>>
        /\ arg' = <<>>
        /\ UNCHANGED <<ctor, json, calls, components>>

NextToggle ==
  \/ BuildOp
  \/ ToggleKeyframeTwiceOp

SpecToggle == Init /\ [][NextToggle]_vars

\* ------------------------------------- transport round trip, on its own
\* dense records as the TrackData type admits them
JSONFeatures ==
  [frame : Frames, keyframe : {Absent, {TRUE}, {FALSE}},
   bounds : {Absent, {BoundsB}}, interpolate : {Absent, {TRUE}},
   attributes : {Absent}]

RECURSIVE SeqsUpTo(_, _)
SeqsUpTo(S, n) ==
  IF n = 0 THEN {<<>>}
  ELSE LET shorter == SeqsUpTo(S, n - 1)
       IN  shorter \cup {Append(q, x) : q \in {p \in shorter : Len(p) = n - 1}, x \in S}

JSONRecords ==
  {[trackId |-> 12, attributes |-> rest[4], confidencePairs |-> rest[3],
    features |-> d, begin |-> rest[1], end |-> rest[2]] :
     d \in SeqsUpTo(JSONFeatures, MaxFeatures),
     rest \in {<<0, MaxFrame, <<>>, EmptyMap>>,
               <<1, 1, <<<<"fish", Half>>>>, SetKey(EmptyMap, "k", 1)>>}}

InitJSON ==
  /\ json \in {{r} : r \in JSONRecords}
  /\ InitAs(NewTrack(0, Infinity, 0, EmptyArray, <<>>, EmptyMap, FALSE).t)
  /\ ctor = "none"
  /\ failed = FALSE
  /\ last = Call("input", Undefined, NoError)
  /\ ret = {}
  /\ others = <<>>
  /\ arg = <<>>
  /\ calls = 0
  /\ prior = <<>>
  /\ NoComponents

\* track = Track.fromJSON(json); no track is yielded when the constructor throws
FromJSONOp ==
  /\ last.op = "input"
  /\ LET r == FromJSON(Val(json))
     IN  /\ IF r.err = NoError THEN Assign(r.t) /\ ctor' = "fromJSON"
            ELSE UNCHANGED <<fields, notified, ctor>>
         /\ last' = Call("fromJSON", Undefined, r.err)
  /\ UNCHANGED <<failed, ret, json, others, arg, calls, prior, components>>

SerializeOp ==
  /\ last.op = "fromJSON"
  /\ last.err = NoError
  /\ ret' = {Serialize(This)}
  /\ last' = Call("serialize", Undefined, NoError)
  /\ UNCHANGED <<fields, notified, ctor, failed, json, others, arg, calls, prior, components>>

NextJSON ==
  \/ FromJSONOp
  \/ SerializeOp

SpecJSON == InitJSON /\ [][NextJSON]_vars

\* --------------------------------------------- the type list, on its own
\* longer runs of setType, removeTypes and merge on a track that starts with
\* no confidence pairs
MaxTypeCalls == MaxCalls + 1
Low == One \div 4
TypeLabels == {"fish", "dog", "cat"}
\* confidenceVal is any number: negative, zero, in (0, 1), one, above one
Confidences == {0 - One, 0, Low, Half, One, 2 * One}
SetTypeArguments == TypeLabels \X Confidences \X {"", "fish", "dog"}
RemoveTypesArguments == {{"fish"}, {"dog", "cat"}}
\* new Track(1, {confidencePairs}): tracks that carry labels and no feature
LabelledTracks ==
  {NewTrack(1, Infinity, 0, EmptyArray, pairs, EmptyMap, FALSE).t :
     pairs \in {<<<<"fish", One>>>>, <<<<"cat", Half>>>>,
                <<<<"dog", Half>>, <<"fish", Low>>>>}}
MergeArguments ==
  {<<o>> : o \in LabelledTracks}
  \cup {<<o[1], o[2]>> : o \in {p \in LabelledTracks \X LabelledTracks : p[1] # p[2]}}

InitTypes ==
  /\ \/ /\ ctor = "default"
        /\ InitAs(NewTrack(0, Infinity, 0, EmptyArray, <<>>, EmptyMap, TRUE).t)
     \/ /\ ctor = "fromJSON"
        /\ InitAs(SetNotifier(FromJSON(
             [trackId |-> 0, attributes |-> EmptyMap, confidencePairs |-> <<>>,
              features |-> <<StoredFeature(0, BoundsA, Absent)>>,
              begin |-> 0, end |-> 0]).t, TRUE))
  /\ failed = FALSE
  /\ last = Call("new", Undefined, NoError)
  /\ ret = {}
  /\ json = {}
  /\ others = <<>>
  /\ arg = <<>>
  /\ calls = 0
  /\ prior = <<>>
  /\ NoComponents

SetTypeAnyOp ==
  \E a \in SetTypeArguments :
    /\ calls < MaxTypeCalls
    /\ Effect("setType", Undefined, Ok(SetType(This, a[1], a[2], a[3])))
    /\ others' = <<>>
    /\ arg' = a

RemoveTypesAnyOp ==
  \E types \in RemoveTypesArguments :
    /\ calls < MaxTypeCalls
    /\ Effect("removeTypes", Undefined, Ok(RemoveTypes(This, types)))
    /\ others' = <<>>
    /\ arg' = <<types>>

MergeLabelsOp ==
  \E list \in MergeArguments :
    /\ calls < MaxTypeCalls
    /\ Effect("merge", Undefined, Merge(This, list))
    /\ others' = list
    /\ arg' = <<>>

NextTypes ==
  \/ SetTypeAnyOp
  \/ RemoveTypesAnyOp
  \/ MergeLabelsOp

SpecTypes == InitTypes /\ [][NextTypes]_vars

\* ------------------------------------------- construction, on its own
\* new Track(0, {features}) on any array of features: any entries present, each
\* holding any frame number
SuppliedFeatures ==
  [frame : Frames, keyframe : {Absent, {TRUE}}, bounds : {Absent, {BoundsB}},
   interpolate : {Absent}, attributes : {Absent}]
SparseArrays == UNION {[D -> SuppliedFeatures] : D \in SUBSET Frames}

InitNew ==
  /\ arg \in {<<a>> : a \in SparseArrays}
  /\ InitAs(NewTrack(0, Infinity, 0, EmptyArray, <<>>, EmptyMap, FALSE).t)
  /\ ctor = "none"
  /\ failed = FALSE
  /\ last = Call("input", Undefined, NoError)
  /\ ret = {}
  /\ json = {}
  /\ others = <<>>
  /\ calls = 0
  /\ prior = <<>>
  /\ NoComponents

\* track = new Track(0, {features}); no track is yielded when it throws
ConstructOp ==
  /\ last.op = "input"
  /\ LET r == NewTrack(0, Infinity, 0, arg[1], <<>>, EmptyMap, FALSE)
     IN  /\ IF r.err = NoError THEN Assign(r.t) /\ ctor' = "new"
            ELSE UNCHANGED <<fields, notified, ctor>>
         /\ last' = Call("new", Undefined, r.err)
  /\ UNCHANGED <<failed, ret, json, others, arg, calls, prior, components>>

NextNew ==
  \/ ConstructOp

SpecNew == InitNew /\ [][NextNew]_vars

\* ------------------------------------- trackExceedsThreshold, on its own
MaxPairs == 2
PairInputs == SeqsUpTo({"fish", "dog"} \X {0, Low, One}, MaxPairs)
ThresholdInputs == UNION {[D -> {0, Half}] : D \in SUBSET {"default", "fish"}}

InitThreshold ==
  /\ arg \in PairInputs \X ThresholdInputs
  /\ InitAs(NewTrack(0, Infinity, 0, EmptyArray, <<>>, EmptyMap, FALSE).t)
  /\ ctor = "none"
  /\ failed = FALSE
  /\ last = Call("input", Undefined, NoError)
  /\ ret = {}
  /\ json = {}
  /\ others = <<>>
  /\ calls = 0
  /\ prior = <<>>
  /\ NoComponents

TrackExceedsThresholdOp ==
  /\ last.op = "input"
  /\ ret' = {TrackExceedsThreshold(arg[1], arg[2])}
  /\ last' = Call("trackExceedsThreshold", Undefined, NoError)
  /\ UNCHANGED <<fields, notified, ctor, failed, json, others, arg, calls, prior, components>>

NextThreshold ==
  \/ TrackExceedsThresholdOp

SpecThreshold == InitThreshold /\ [][NextThreshold]_vars

\* ------------------------------------------------------------ TypeList.vue
\* type names and the filter text are strings, held as tuples of characters
Dog == <<"d", "o", "g">>
Fish == <<"f", "i", "s", "h">>
Cod == <<"C", "o", "d">>
Range(seq) == {seq[i] : i \in 1..Len(seq)}

\* String.prototype.toLowerCase, on the characters in use
ToLowerCase(s) == [i \in 1..Len(s) |-> IF s[i] = "C" THEN "c" ELSE s[i]]
\* String.prototype.includes
Includes(s, sub) ==
  \E i \in 0..(Len(s) - Len(sub)) : SubSeq(s, i + 1, i + Len(sub)) = sub
\* UTF-16 code units, the order of the default Array.prototype.sort
CodeUnit ==
  ("C" :> 67) @@ ("c" :> 99) @@ ("d" :> 100) @@ ("f" :> 102) @@ ("g" :> 103)
  @@ ("h" :> 104) @@ ("i" :> 105) @@ ("o" :> 111) @@ ("s" :> 115)
StringLess(a, b) ==
  LET differ == {i \in 1..Len(a) : i <= Len(b) /\ a[i] # b[i]}
  IN  IF differ = {} THEN Len(a) < Len(b)
      ELSE CodeUnit[a[SetMin(differ)]] < CodeUnit[b[SetMin(differ)]]
\* a stable sort, by ascending key
RECURSIVE SortByKey(_, _)
SortByKey(seq, key) ==
  IF Len(seq) <= 1 THEN seq
  ELSE LET least == SetMin({key[seq[i]] : i \in 1..Len(seq)})
           first == SetMin({i \in 1..Len(seq) : key[seq[i]] = least})
       IN  <<seq[first]>> \o SortByKey(RemoveAt(seq, first), key)

\* lodash difference and union
Difference(array, values) == SelectSeq(array, LAMBDA x : x \notin Range(values))
RECURSIVE Uniq(_)
Uniq(seq) ==
  IF seq = <<>> THEN <<>>
  ELSE <<Head(seq)>> \o Uniq(SelectSeq(Tail(seq), LAMBDA x : x # Head(seq)))
Union(a, b) == Uniq(a \o b)

\* typeCounts.value.get(t) || 0
CountOf(tl, t) == IF t \in DOMAIN tl.typeCounts THEN tl.typeCounts[t] ELSE 0

SortAndFilterTypes(tl, types) ==
  LET filtered == SelectSeq(types, LAMBDA t :
                    Includes(ToLowerCase(t), ToLowerCase(tl.filterText)))
      S == Range(filtered)
  IN  IF tl.sortingMethod = 0
      THEN SortByKey(filtered, [t \in S |-> Cardinality({u \in S : StringLess(u, t)})])
      ELSE SortByKey(filtered, [t \in S |-> 0 - CountOf(tl, t)])

VisibleTypes(tl) ==
  IF tl.showEmptyTypes THEN SortAndFilterTypes(tl, tl.allTypes)
  ELSE SortAndFilterTypes(tl, tl.usedTypes)

HeadCheckState(tl) ==
  LET uncheckedTypes == Difference(VisibleTypes(tl), tl.checkedTypes)
  IN  IF Len(uncheckedTypes) = 0 THEN 1
      ELSE IF Len(uncheckedTypes) = Len(VisibleTypes(tl)) THEN 0
      ELSE 0 - 1

\* the injected handler: it stores the list as the checked types
SetCheckedTypes(tl, list) == [tl EXCEPT !.checkedTypes = list]

\* the same giving up what is checked and not visible
HeadCheckClickedVisibleOnly(tl) ==
  IF HeadCheckState(tl) = 0 THEN SetCheckedTypes(tl, VisibleTypes(tl))
  ELSE SetCheckedTypes(tl, <<>>)
HeadCheckClicked(tl) ==
  IF HeadCheckState(tl) = 0
  THEN SetCheckedTypes(tl, Union(Difference(tl.checkedTypes, VisibleTypes(tl)),
                                 VisibleTypes(tl)))
  ELSE SetCheckedTypes(tl, Difference(tl.checkedTypes, VisibleTypes(tl)))

UpdateCheckedType(tl, evt, type) ==
  IF evt THEN SetCheckedTypes(tl, tl.checkedTypes \o <<type>>)
  ELSE SetCheckedTypes(tl, Difference(tl.checkedTypes, <<type>>))

ClickSortToggle(tl) == [tl EXCEPT !.sortingMethod = (@ + 1) % 2]

\* clickDelete up to its await: the prompt lists the checked types
ClickDelete(tl) ==
  [tl EXCEPT !.listed = tl.checkedTypes, !.pending = TRUE, !.removed = {}]
\* clickDelete from its await on: removeTypeTracks([...checkedTypesRef.value])
PromptResolved(tl, result) ==
  [tl EXCEPT !.pending = FALSE,
             !.removed = IF result THEN {tl.checkedTypes} ELSE {}]

FilterTexts == {<<>>, <<"o">>, <<"c">>}

InitTypeList ==
  /\ \E checked \in {<<>>, <<Fish, Dog>>} :
     \E show \in BOOLEAN :
       typeList = [checkedTypes |-> checked, allTypes |-> <<Fish, Dog, Cod>>,
                   usedTypes |-> <<Fish, Dog>>, showEmptyTypes |-> show,
                   filterText |-> <<>>, sortingMethod |-> 0,
                   typeCounts |-> (Dog :> 2) @@ (Fish :> 1),
                   listed |-> <<>>, pending |-> FALSE, removed |-> {}]
  /\ trackItem = <<>>
  /\ control = <<>>
  /\ InitAs(NewTrack(0, Infinity, 0, EmptyArray, <<>>, EmptyMap, FALSE).t)
  /\ ctor = "none"
  /\ failed = FALSE
  /\ last = Call("mounted", Undefined, NoError)
  /\ ret = {}
  /\ json = {}
  /\ others = <<>>
  /\ arg = <<>>
  /\ calls = 0
  /\ prior = <<>>

\* a handler of the component has run; the track variables are not involved
Handled(op, a) ==
  /\ last' = Call(op, Undefined, NoError)
  /\ arg' = a
  /\ UNCHANGED <<fields, notified, ctor, failed, ret, json, others, calls, prior>>

HeadCheckClickedOp ==
  /\ typeList' = HeadCheckClicked(typeList)
  /\ Handled("headCheckClicked", <<>>)
  /\ UNCHANGED <<trackItem, control>>

\* the checkbox of a visible type is toggled: $event is its new value
UpdateCheckedTypeOp ==
  \E type \in Range(VisibleTypes(typeList)) :
    LET evt == type \notin Range(typeList.checkedTypes)
    IN  /\ typeList' = UpdateCheckedType(typeList, evt, type)
        /\ Handled("updateCheckedType", <<evt, type>>)
        /\ UNCHANGED <<trackItem, control>>

ClickSortToggleOp ==
  /\ typeList' = ClickSortToggle(typeList)
  /\ Handled("clickSortToggle", <<>>)
  /\ UNCHANGED <<trackItem, control>>

\* v-model="data.filterText"
FilterTextOp ==
  \E text \in FilterTexts :
    /\ text # typeList.filterText
    /\ typeList' = [typeList EXCEPT !.filterText = text]
    /\ Handled("filterText", <<text>>)
    /\ UNCHANGED <<trackItem, control>>

\* the delete button is disabled while no type is checked
ClickDeleteOp ==
  /\ ~typeList.pending
  /\ Len(typeList.checkedTypes) # 0
  /\ typeList' = ClickDelete(typeList)
  /\ Handled("clickDelete", <<>>)
  /\ UNCHANGED <<trackItem, control>>

PromptResolvedOp ==
  \E result \in BOOLEAN :
    /\ typeList.pending
    /\ typeList' = PromptResolved(typeList, result)
    /\ Handled("prompt", <<result>>)
    /\ UNCHANGED <<trackItem, control>>

NextTypeList ==
  \/ HeadCheckClickedOp
  \/ UpdateCheckedTypeOp
  \/ ClickSortToggleOp
  \/ FilterTextOp
  \/ ClickDeleteOp
  \/ PromptResolvedOp

SpecTypeList == InitTypeList /\ [][NextTypeList]_vars

\* ---------------------------------------------------------------- Control
\* a watcher that copies the frame during a drag too
WatchFrameAlways(c, frame) == [c EXCEPT !.frame = frame]
\* the callback of watch(mediaController.frame)
WatchFrame(c, frame) == IF ~c.dragging THEN [c EXCEPT !.frame = frame] ELSE c
\* mediaController.frame takes a new value and the watcher runs
FrameChanged(c, frame) == WatchFrame([c EXCEPT !.controllerFrame = frame], frame)

DragStart(c) == [c EXCEPT !.dragging = TRUE]
DragEnd(c) == [c EXCEPT !.dragging = FALSE]

\* the injected controller: seek moves mediaController.frame to the value
Seek(c, value) == FrameChanged([c EXCEPT !.sought = {value}], value)

Input(c, value) ==
  LET c1 == IF c.controllerFrame # value THEN Seek(c, value) ELSE c
  IN  [c1 EXCEPT !.frame = value]

\* the injected controller: play and pause set mediaController.playing
TogglePlay(c) == [c EXCEPT !.playing = ~c.playing]

\* the slider runs from 0 to mediaController.maxFrame
SliderFrames == 0..(MaxFrame + 1)

InitControl ==
  /\ \E f \in SliderFrames :
       control = [frame |-> 0, dragging |-> FALSE, controllerFrame |-> f,
                  playing |-> FALSE, sought |-> {}]
  /\ typeList = <<>>
  /\ trackItem = <<>>
  /\ InitAs(NewTrack(0, Infinity, 0, EmptyArray, <<>>, EmptyMap, FALSE).t)
  /\ ctor = "none"
  /\ failed = FALSE
  /\ last = Call("mounted", Undefined, NoError)
  /\ ret = {}
  /\ json = {}
  /\ others = <<>>
  /\ arg = <<>>
  /\ calls = 0
  /\ prior = <<>>

\* playback or another component moves the controller to another frame
FrameChangedOp ==
  \E f \in SliderFrames \ {control.controllerFrame} :
    /\ control' = FrameChanged([control EXCEPT !.sought = {}], f)
    /\ Handled("frame", <<f>>)
    /\ UNCHANGED <<typeList, trackItem>>

DragStartOp ==
  /\ control' = DragStart([control EXCEPT !.sought = {}])
  /\ Handled("start", <<>>)
  /\ UNCHANGED <<typeList, trackItem>>

DragEndOp ==
  /\ control' = DragEnd([control EXCEPT !.sought = {}])
  /\ Handled("end", <<>>)
  /\ UNCHANGED <<typeList, trackItem>>

InputOp ==
  \E value \in SliderFrames :
    /\ control' = Input([control EXCEPT !.sought = {}], value)
    /\ Handled("input", <<value>>)
    /\ UNCHANGED <<typeList, trackItem>>

TogglePlayOp ==
  /\ control' = TogglePlay([control EXCEPT !.sought = {}])
  /\ Handled("togglePlay", <<>>)
  /\ UNCHANGED <<typeList, trackItem>>

NextControl ==
  \/ FrameChangedOp
  \/ TogglePlayOp
  \/ DragStartOp
  \/ DragEndOp
  \/ InputOp

SpecControl == InitControl /\ [][NextControl]_vars

\* ------------------------------------------------ TrackItem: the keyframe
\* the computed feature: track.revision is never 0, so the first branch is
\* always taken; err is what canInterpolate throws
Feature(t, frame) ==
  LET c == CanInterpolate(t, frame)
      real == c.features[1]
      lower == c.features[2]
      upper == c.features[3]
  IN  [real |-> real, lower |-> lower, upper |-> upper,
       shouldInterpolate |-> c.interpolate,
       targetKeyframe |-> IF OptTruthy(real, "keyframe") THEN real
                          ELSE IF lower # {} THEN lower ELSE upper,
       isKeyframe |-> OptTruthy(real, "keyframe"),
       err |-> c.err]

KeyframeDisabled(t, frame) ==
  \/ Feature(t, frame).real = {} /\ ~Feature(t, frame).shouldInterpolate
  \/ TrackLength(t) = 1 /\ frame = t.begin

\* the click and the 'k' hotkey: the guard, then track.toggleKeyframe
ItemToggleKeyframe(t, frame) ==
  IF Feature(t, frame).err # NoError THEN Throw(t, Feature(t, frame).err)
  ELSE IF ~KeyframeDisabled(t, frame) THEN ToggleKeyframe(t, frame)
  ELSE Ok(t)

ItemToggleKeyframeOp ==
  \E frame \in Frames :
    /\ Returned("TrackItem.toggleKeyframe", frame, ItemToggleKeyframe(This, frame))

NextItemKeyframe ==
  \/ BuildOp
  \/ ItemToggleKeyframeOp

SpecItemKeyframe == Init /\ [][NextItemKeyframe]_vars

\* ------------------------------------------------ TrackItem: the type box
\* String.prototype.trim, on texts whose only whitespace is the space
RECURSIVE TrimStart(_)
TrimStart(s) == IF s # <<>> /\ Head(s) = " " THEN TrimStart(Tail(s)) ELSE s
RECURSIVE TrimEnd(_)
TrimEnd(s) ==
  IF s # <<>> /\ s[Len(s)] = " " THEN TrimEnd(SubSeq(s, 1, Len(s) - 1)) ELSE s
Trim(s) == TrimEnd(TrimStart(s))

\* at most this many deferred callbacks are pending at once
MaxTimers == 2

\* watch(trackTypeRef)
WatchTrackType(ti, val) == [ti EXCEPT !.trackTypeValue = val]
\* the parent hands the item another trackType and the watcher runs
TrackTypeChanged(ti, val) == WatchTrackType([ti EXCEPT !.trackType = val], val)

OnFocus(ti) ==
  [ti EXCEPT !.trackTypeValue = IF ~ti.skipOnFocus THEN <<>> ELSE @,
             !.skipOnFocus = FALSE]

\* window.setTimeout(..., 100): the entry keeps the value the box held when
\* the callback was scheduled
SetTimeout(ti) == [ti EXCEPT !.timers = Append(@, ti.trackTypeValue)]

\* the select is the only element whose blur() runs no handler of the item
OnBlur(ti) ==
  LET ti1 == IF Trim(ti.trackTypeValue) = <<>>
             THEN [ti EXCEPT !.trackTypeValue = ti.trackType]
             ELSE IF ti.trackTypeValue # ti.trackType THEN SetTimeout(ti)
             ELSE ti
  IN  IF ti.lockTypes THEN [ti1 EXCEPT !.focused = FALSE] ELSE ti1

\* the element loses the focus: the text input runs @blur="onBlur"
Blurred(ti) ==
  IF ti.lockTypes THEN [ti EXCEPT !.focused = FALSE]
  ELSE OnBlur([ti EXCEPT !.focused = FALSE])

\* e.target.blur(): no event when the element is not focused
BlurType(ti) == IF ti.focused THEN Blurred(ti) ELSE ti

\* the element gains the focus and runs @focus="onFocus"
Focused(ti) == OnFocus([ti EXCEPT !.focused = TRUE])

\* shift+enter on the selected item; focus() fires no event on a focused box
FocusType(ti) ==
  LET ti1 == [ti EXCEPT !.skipOnFocus = TRUE]
  IN  IF ti1.focused THEN ti1 ELSE Focused(ti1)

OnInputKeyEvent(ti, code) ==
  IF code \in {"Escape", "Enter"} THEN BlurType(ti)
  ELSE IF code = "ArrowDown" THEN [ti EXCEPT !.trackTypeValue = <<>>]
  ELSE ti

\* v-model on the text input
TypeText(ti, text) == [ti EXCEPT !.trackTypeValue = text]
\* the select: v-model takes the option, then @change="onBlur"
SelectOption(ti, item) == OnBlur([ti EXCEPT !.trackTypeValue = item])

\* the deferred callback: handler.trackTypeChange(trackId, data.trackTypeValue)
TimerFired(ti) ==
  [ti EXCEPT !.timers = Tail(@),
             !.changed = {[type |-> ti.trackTypeValue, held |-> Head(ti.timers)]}]

TypeOptions == {Dog, Fish}
Texts == {<<>>, <<" ">>, Dog, Fish}
KeyCodes == {"Escape", "Enter", "ArrowDown", "KeyA"}

InitItemType ==
  /\ \E lock \in BOOLEAN : \E type \in TypeOptions :
       trackItem = [trackTypeValue |-> type, trackType |-> type, skipOnFocus |-> FALSE,
                    lockTypes |-> lock, focused |-> FALSE, timers |-> <<>>,
                    changed |-> {}]
  /\ typeList = <<>>
  /\ control = <<>>
  /\ InitAs(NewTrack(0, Infinity, 0, EmptyArray, <<>>, EmptyMap, FALSE).t)
  /\ ctor = "none"
  /\ failed = FALSE
  /\ last = Call("mounted", Undefined, NoError)
  /\ ret = {}
  /\ json = {}
  /\ others = <<>>
  /\ arg = <<>>
  /\ calls = 0
  /\ prior = <<>>

\* the item as the next event finds it: the last invocation is forgotten
Item == [trackItem EXCEPT !.changed = {}]
ItemHandled(op, a, ti) ==
  /\ Len(ti.timers) <= MaxTimers
  /\ trackItem' = ti
  /\ Handled(op, a)
  /\ UNCHANGED <<typeList, control>>

ClickBoxOp ==
  /\ ~trackItem.focused
  /\ ItemHandled("focus", <<>>, Focused(Item))

\* the hotkey is bound while the item is selected
FocusTypeOp ==
  /\ trackItem # <<>>
  /\ ItemHandled("focusType", <<>>, FocusType(Item))

TypeTextOp ==
  \E text \in Texts :
    /\ trackItem.focused
    /\ ~trackItem.lockTypes
    /\ ItemHandled("type", <<text>>, TypeText(Item, text))

SelectOptionOp ==
  \E item \in TypeOptions :
    /\ trackItem.focused
    /\ trackItem.lockTypes
    /\ ItemHandled("change", <<item>>, SelectOption(Item, item))

ClickAwayOp ==
  /\ trackItem.focused
  /\ ItemHandled("blur", <<>>, Blurred(Item))

KeyOp ==
  \E code \in KeyCodes :
    /\ trackItem.focused
    /\ ItemHandled("keydown", <<code>>, OnInputKeyEvent(Item, code))

TrackTypeChangedOp ==
  \E val \in TypeOptions \ {trackItem.trackType} :
    ItemHandled("trackType", <<val>>, TrackTypeChanged(Item, val))

TimerFiredOp ==
  /\ trackItem.timers # <<>>
  /\ ItemHandled("timer", <<>>, TimerFired(Item))

NextItemType ==
  \/ ClickBoxOp
  \/ FocusTypeOp
  \/ TypeTextOp
  \/ SelectOptionOp
  \/ ClickAwayOp
  \/ KeyOp
  \/ TrackTypeChangedOp
  \/ TimerFiredOp

SpecItemType == InitItemType /\ [][NextItemType]_vars

\* ------------------------------------------------------------ the claims
Keyframes == {f \in DOMAIN features : Truthy(features[f].keyframe)}
SeqRange(q) == {q[i] : i \in 1..Len(q)}
StrictlyAscending(q) == \A i \in 1..Len(q) : \A j \in 1..Len(q) : i < j => q[i] < q[j]
NoFeatures == ctor \in {"default", "placeholder"}
\* every stored feature is a keyframe with bounds
AllKeyframes(fs) == \A f \in DOMAIN fs : Truthy(fs[f].keyframe) /\ Has(fs[f].bounds)

\* C1: every feature stored in track.features has keyframe true if and only
\* if it has bounds; stated for the states reached through calls that all
\* returned normally, where it already fails.
C1_KeyframeIffBounds ==
  ~failed =>
    \A f \in DOMAIN features : Truthy(features[f].keyframe) <=> Has(features[f].bounds)

\* C2: featureIndex is strictly ascending and holds exactly the frames whose
\* stored feature has keyframe true.
C2_IndexIsKeyframes ==
  /\ StrictlyAscending(featureIndex)
  /\ SeqRange(featureIndex) = Keyframes

\* C3: begin <= end whenever featureIndex is non-empty, and begin = +infinity
\* and end = 0 whenever it is empty; stated for the tracks constructed with the
\* default begin and end, the case of the claim in which the track starts out
\* in the empty state the claim describes, and for the states in which every
\* stored feature is a keyframe with bounds.
C3_RangeOrSentinel ==
  (ctor = "default" /\ AllKeyframes(features)) =>
    /\ featureIndex # <<>> => begin <= end
    /\ featureIndex = <<>> => (begin = Infinity /\ end = 0)

\* C4: on a track constructed without features, after successful calls only,
\* getFeature(frame) never raises the bounds-mis-aligned error, for any frame;
\* stated for the states in which every stored feature is a keyframe with bounds.
C4_NeverMisaligned ==
  (NoFeatures /\ ~failed /\ AllKeyframes(features)) =>
    \A frame \in 0..(MaxFrame + 1) : GetFeature(This, frame).err # ErrMisaligned

\* C5: the first successful setFeature of a keyframe (with bounds) at frame f
\* on a track constructed without features leaves begin = f and end = f.
C5_FirstKeyframeSnaps ==
  [][(NoFeatures /\ calls = 0 /\ calls' = 1
      /\ last'.op = "setFeature" /\ last'.err = NoError /\ AllKeyframes(features'))
     => (begin' = last'.frame /\ end' = last'.frame)]_vars

\* C6: a setFeature call that fails on the keyframe check leaves features,
\* featureIndex, begin, end and revision as they were.
C6_FailedSetFeatureNoChange ==
  [][(calls' = calls + 1 /\ last'.op = "setFeature" /\ last'.err = ErrKeyframe)
     => UNCHANGED <<features, featureIndex, begin, end, revision>>]_vars

\* C7: toggleKeyframe at the only keyframe of a track of length 1 raises an
\* error and leaves features, featureIndex, begin, end and revision unchanged.
LengthOneAt(frame) ==
  /\ begin = frame
  /\ end = frame
  /\ featureIndex = <<frame>>
  /\ Keyframes = {frame}
C7_OnlyKeyframeStays ==
  [][(calls' = calls + 1 /\ last'.op = "toggleKeyframe" /\ LengthOneAt(last'.frame))
     => (/\ last'.err = ErrOnlyKeyframe
         /\ UNCHANGED <<features, featureIndex, begin, end, revision>>)]_vars
C7_Witness ==
  /\ last.op = "toggleKeyframe"
  /\ last.err = ErrOnlyKeyframe
  /\ LengthOneAt(last.frame)
  /\ calls > 0

\* C8: fromJSON(R).serialize() succeeds and reproduces R's trackId, begin, end,
\* attributes and confidencePairs, and the set of R's features with keyframe
\* set to true on each.
ForcedKeyframe(f) == [f EXCEPT !.keyframe = {TRUE}]
RoundTrips(R) ==
  /\ last.op = "fromJSON" => last.err = NoError
  /\ last.op = "serialize" =>
       \E s \in ret :
         /\ s.trackId = R.trackId
         /\ s.begin = R.begin
         /\ s.end = R.end
         /\ s.attributes = R.attributes
         /\ s.confidencePairs = R.confidencePairs
         /\ SeqRange(s.features) = {ForcedKeyframe(f) : f \in SeqRange(R.features)}
C8_RoundTripEveryRecord ==
  \A R \in json : RoundTrips(R)
\* C8, amended: the same for the records whose features all carry bounds, do
\* not carry keyframe false, and have pairwise different frames.
ValidRecord(R) ==
  /\ \A k \in 1..Len(R.features) :
       Has(R.features[k].bounds) /\ R.features[k].keyframe # {FALSE}
  /\ \A k \in 1..Len(R.features) : \A m \in 1..Len(R.features) :
       k # m => R.features[k].frame # R.features[m].frame
C8_RoundTripValidRecord ==
  \A R \in json : ValidRecord(R) => RoundTrips(R)
C8_Witness ==
  /\ last.op = "serialize"
  /\ \E R \in json :
       /\ ValidRecord(R)
       /\ Len(R.features) = 2
       /\ R.features[1].frame > R.features[2].frame

\* C9: on a track whose begin and end are its first and last keyframes, split
\* at a frame with begin < frame <= end returns two tracks; the first holds
\* exactly the source keyframes below frame, keeps begin and ends at the
\* largest keyframe below frame; the second holds exactly the source keyframes
\* at or above frame, begins at the smallest of them and keeps end; both have
\* at least one keyframe.
RangeIsKeyframes ==
  /\ featureIndex # <<>>
  /\ SeqRange(featureIndex) = Keyframes
  /\ begin = SetMin(Keyframes)
  /\ end = SetMax(Keyframes)
HoldsExactly(part, frames) ==
  /\ SeqRange(part.featureIndex) = frames
  /\ {f \in DOMAIN part.features : Truthy(part.features[f].keyframe)} = frames
  /\ \A f \in frames : part.features[f] = features[f]
  /\ frames # {}
SplitsAsClaimed(frame) ==
  /\ last.err = NoError
  /\ \E pair \in ret :
       /\ HoldsExactly(pair[1], {f \in Keyframes : f < frame})
       /\ pair[1].begin = begin
       /\ pair[1].end = SetMax({f \in Keyframes : f < frame})
       /\ HoldsExactly(pair[2], {f \in Keyframes : f >= frame})
       /\ pair[2].begin = SetMin({f \in Keyframes : f >= frame})
       /\ pair[2].end = end
C9_SplitPartitionsKeyframes ==
  (last.op = "split" /\ RangeIsKeyframes /\ begin < last.frame /\ last.frame <= end)
    => SplitsAsClaimed(last.frame)

\* C10: split raises an error exactly when canSplit(frame) is false, and
\* canSplit(frame) is true exactly when begin < frame <= end; stated for the
\* states reached through calls that all returned normally.
C10_SplitThrowsIffCannotSplit ==
  (last.op = "split" /\ ~failed) =>
    /\ (last.err # NoError) <=> ~CanSplit(This, last.frame)
    /\ CanSplit(This, last.frame) <=> (begin < last.frame /\ last.frame <= end)

\* BoundsB as Math.round leaves it
BoundsBRounded == <<11 * One, 11 * One, 20 * One, 20 * One>>

\* C11: merge never changes a feature this already had, and writes an incoming
\* feature at frame f only if getFeature(f) of this yields no exact feature at
\* the moment that feature is processed, the others being processed in list
\* order.
\* the frames merge wrote to
Written == {f \in DOMAIN features' : f \notin DOMAIN features \/ features'[f] # features[f]}
ProcessedWhenVacant(list, f) ==
  \E i \in 1..Len(list) :
    LET before == Merge(This, SubSeq(list, 1, i - 1))
        g == GetFeature(before.t, f)
    IN  /\ f \in DOMAIN list[i].features
        /\ before.err = NoError
        /\ g.err = NoError
        /\ g.val[1] = {}
C11_MergeSelfWins ==
  [][(calls' = calls + 1 /\ last'.op = "merge")
     => /\ \A f \in DOMAIN features : f \in DOMAIN features' /\ features'[f] = features[f]
        /\ \A f \in Written : ProcessedWhenVacant(others', f)]_vars
\* a merge of two tracks has adopted the feature of the first next to one
\* this held, and has left out the feature of the second, whose frame this
\* interpolates once the first is adopted
C11_Witness ==
  /\ last.op = "merge"
  /\ last.err = NoError
  /\ Len(others) = 2
  /\ \E f \in Keyframes : features[f].bounds = {BoundsA}
  /\ others[1].begin \in Keyframes
  /\ features[others[1].begin].bounds = {BoundsBRounded}
  /\ others[2].begin \notin DOMAIN features

\* C12: after A.merge([B]), where B has a keyframe at a frame f at which A has
\* no keyframe, A has B's feature at f as a keyframe (its bounds as setFeature
\* rounds them); stated for the merges that return normally.
KeyframesOf(t) == {f \in DOMAIN t.features : Truthy(t.features[f].keyframe)}
HasAdopted(B, f) ==
  /\ f \in DOMAIN features'
  /\ features'[f] = [B.features[f] EXCEPT !.bounds = {BoundsBRounded}]
  /\ Truthy(features'[f].keyframe)
  /\ f \in SeqRange(featureIndex')
C12_MergeAdoptsMissingKeyframe ==
  [][(calls' = calls + 1 /\ last'.op = "merge" /\ last'.err = NoError)
     => \A B \in OtherTracks :
          others' = <<B>> =>
            \A f \in KeyframesOf(B) : f \notin Keyframes => HasAdopted(B, f)]_vars
\* C12, amended: the same for the frames f at which getFeature(f) of A yields
\* no exact feature, neither a stored one nor an interpolated one.
NoExactFeature(f) ==
  LET g == GetFeature(This, f)
  IN  g.err = NoError /\ g.val[1] = {}
C12_MergeAdoptsVacantFrame ==
  [][(calls' = calls + 1 /\ last'.op = "merge")
     => \A B \in OtherTracks :
          others' = <<B>> =>
            \A f \in KeyframesOf(B) :
              NoExactFeature(f) => (last'.err = NoError /\ HasAdopted(B, f))]_vars
\* a merge of one track has adopted its keyframe, the bounds rounded, behind
\* the one A held
C12_Witness ==
  /\ last.op = "merge"
  /\ last.err = NoError
  /\ Len(others) = 1
  /\ Len(featureIndex) = 2
  /\ \E i \in 1..Len(notified) :
       notified[i].event = "feature" /\ notified[i].oldValue = {EmptyObject}
  /\ features[featureIndex[2]].bounds = {BoundsBRounded}
  /\ features[featureIndex[1]].bounds = {BoundsA}

\* C13: merge adopts an incoming (label, confidence) pair only when this has no
\* pair for that label or holds it with strictly lower confidence, and every
\* label this held before the merge is still in confidencePairs afterwards
\* with a confidence not lower than before.
Labels(pairs) == {pairs[i][1] : i \in 1..Len(pairs)}
ConfidenceOf(pairs, label) == pairs[FindIndex(pairs, label)][2]
C13_MergeKeepsLabels ==
  [][(calls' = calls + 1 /\ last'.op = "merge" /\ last'.err = NoError)
     => /\ \A label \in Labels(confidencePairs') :
             \/ label \notin Labels(confidencePairs)
             \/ ConfidenceOf(confidencePairs', label) = ConfidenceOf(confidencePairs, label)
             \/ ConfidenceOf(confidencePairs, label) < ConfidenceOf(confidencePairs', label)
        /\ \A label \in Labels(confidencePairs) :
             /\ label \in Labels(confidencePairs')
             /\ ConfidenceOf(confidencePairs', label) >= ConfidenceOf(confidencePairs, label)]_vars

\* C14: between consecutive keyframes A and B with integer bounds and
\* A.interpolate true, getFeature(frame)[0] is a feature with keyframe false
\* whose bounds v satisfy v * (B.frame - A.frame) = A.bounds * (B.frame - frame)
\* + B.bounds * (frame - A.frame) in all four components, and getFeature at
\* A.frame and at B.frame returns the stored keyframes themselves.
IntegerBounds(f) == Has(f.bounds) /\ \A i \in 1..4 : Val(f.bounds)[i] % One = 0
ConsecutiveKeyframes ==
  {p \in Keyframes \X Keyframes :
     p[1] < p[2] /\ \A f \in Keyframes : ~(p[1] < f /\ f < p[2])}
Blend(x, A, B, frame) ==
  /\ Has(x.bounds)
  /\ \A i \in 1..4 :
       Val(x.bounds)[i] * (B.frame - A.frame) =
         (Val(A.bounds)[i] * (B.frame - frame)) + (Val(B.bounds)[i] * (frame - A.frame))
InterpolatesBetween(A, B) ==
  /\ \A frame \in (A.frame + 1)..(B.frame - 1) :
       LET g == GetFeature(This, frame)
       IN  /\ g.err = NoError
           /\ \E x \in g.val[1] : x.keyframe = {FALSE} /\ Blend(x, A, B, frame)
  /\ GetFeature(This, A.frame) = [val |-> <<{A}, {A}, {A}>>, err |-> NoError]
  /\ GetFeature(This, B.frame) = [val |-> <<{B}, {B}, {B}>>, err |-> NoError]
C14_InterpolationLaw ==
  \A p \in ConsecutiveKeyframes :
    LET A == features[p[1]]
        B == features[p[2]]
    IN  (IntegerBounds(A) /\ IntegerBounds(B) /\ Truthy(A.interpolate))
          => InterpolatesBetween(A, B)

\* C15: between consecutive keyframes A and B with A.interpolate false or
\* unset, getFeature(frame)[0] is null whatever B.interpolate is, and the lower
\* and upper elements of the tuple are A and B; stated for the states reached
\* through calls that all returned normally and in which every stored feature
\* is a keyframe with bounds.
C15_InterpolationOptOut ==
  (~failed /\ AllKeyframes(features)) =>
  \A p \in ConsecutiveKeyframes :
    LET A == features[p[1]]
        B == features[p[2]]
    IN  ~Truthy(A.interpolate) =>
          \A frame \in (A.frame + 1)..(B.frame - 1) :
            GetFeature(This, frame) = [val |-> <<{}, {A}, {B}>>, err |-> NoError]

\* C16: getFeature(frame) returns (k, k, k) when frame holds keyframe k;
\* (null, features[begin], null) when frame < begin; (null, null, features[end])
\* when frame > end; (null, null, null) when the track has no keyframe; and
\* otherwise (interpolated, lower, upper), lower the keyframe with the greatest
\* frame number below frame and upper the one with the smallest above; stated
\* for the states reached through calls that all returned normally and in
\* which every stored feature is a keyframe with bounds.
Expected(frame) ==
  LET below == {f \in Keyframes : f < frame}
      above == {f \in Keyframes : f > frame}
  IN  IF frame \in Keyframes
      THEN <<{features[frame]}, {features[frame]}, {features[frame]}>>
      ELSE IF frame < begin THEN <<{}, At(This, begin), {}>>
      ELSE IF frame > end THEN <<{}, {}, At(This, end)>>
      ELSE IF Keyframes = {} THEN <<{}, {}, {}>>
      ELSE IF below # {} /\ above # {}
      THEN LET lower == features[SetMax(below)]
               upper == features[SetMin(above)]
           IN  <<Interpolate(frame, {lower}, {upper}).val, {lower}, {upper}>>
      ELSE <<{"no such keyframe"}, {}, {}>>
C16_GetFeatureCases ==
  (~failed /\ AllKeyframes(features)) =>
  \A frame \in 0..(MaxFrame + 1) :
    LET g == GetFeature(This, frame)
    IN  g.err = NoError /\ g.val = Expected(frame)

\* C17: an operation that completes while the track has no keyframe
\* (featureIndex empty) neither invokes the notifier nor changes revision; in
\* particular setType, setAttribute and removeTypes on such a track are silent.
C17_SilentBeforeFirstKeyframe ==
  [][(calls' = calls + 1 /\ featureIndex' = <<>>)
     => (notified' = <<>> /\ revision' = revision)]_vars
\* a label and an attribute have been set on a track without keyframes
C17_Witness ==
  /\ last.op = "setAttribute"
  /\ featureIndex = <<>>
  /\ notifier
  /\ confidencePairs # <<>>
  /\ DOMAIN attributes # {}
  /\ notified = <<>>
  /\ revision = 1

\* C18: revision never decreases, and on a track with at least one keyframe
\* each successful call of setFeature, deleteFeature, setFeatureAttribute,
\* setType, removeTypes (on a non-empty list) or setAttribute increases
\* revision by exactly 1; stated for the calls that leave every stored feature
\* a keyframe with bounds.
SingleMutations ==
  {"setFeature", "deleteFeature", "setFeatureAttribute", "setType", "removeTypes",
   "setAttribute"}
C18_RevisionStepsByOne ==
  [][/\ revision' >= revision
     /\ (/\ calls' = calls + 1
         /\ featureIndex # <<>>
         /\ last'.err = NoError
         /\ last'.op \in SingleMutations
         /\ AllKeyframes(features')
         /\ last'.op = "removeTypes" => confidencePairs # <<>>)
        => revision' = revision + 1]_vars

\* C19: on a track with a notifier, deleteFeature(frame) at a frame that holds
\* a keyframe invokes the notifier with event 'feature' and the removed feature
\* as oldValue, and increments revision; stated for the tracks in which every
\* stored feature is a keyframe with bounds.
C19_DeleteNotifies ==
  [][(/\ calls' = calls + 1
      /\ last'.op = "deleteFeature"
      /\ notifier
      /\ AllKeyframes(features)
      /\ last'.frame \in Keyframes)
     => /\ \E i \in 1..Len(notified') :
             notified'[i] = Note("feature", {features[last'.frame]})
        /\ revision' > revision]_vars

\* C20: for setType on a track with at least one keyframe, with a confidence
\* of 1 or more as with one below 1, the oldValue delivered with the
\* 'confidencePairs' notification is the list of pairs as it was immediately
\* before the call.
C20_SetTypeOldValue ==
  [][(/\ calls' = calls + 1
      /\ last'.op = "setType"
      /\ notifier
      /\ featureIndex # <<>>)
     => notified' = <<Note("confidencePairs", confidencePairs)>>]_vars

\* C21: deleteFeature(frame) on a track whose begin and end are its first and
\* last keyframes: at begin with a later keyframe, begin becomes the smallest
\* keyframe above frame and end stays; at end with an earlier keyframe, end
\* becomes the largest keyframe below frame and begin stays; at the only
\* keyframe, begin = +infinity and end = 0; strictly between begin and end,
\* both stay.
RangeSpansKeyframes ==
  /\ Keyframes # {}
  /\ begin = SetMin(Keyframes)
  /\ end = SetMax(Keyframes)
ShrinksAsClaimed(frame) ==
  LET later == {f \in Keyframes : f > frame}
      earlier == {f \in Keyframes : f < frame}
  IN  /\ (frame = begin /\ later # {}) => (begin' = SetMin(later) /\ end' = end)
      /\ (frame = end /\ earlier # {}) => (end' = SetMax(earlier) /\ begin' = begin)
      /\ Keyframes = {frame} => (begin' = Infinity /\ end' = 0)
      /\ (begin < frame /\ frame < end) => (begin' = begin /\ end' = end)
C21_DeleteShrinksRange ==
  [][(calls' = calls + 1 /\ last'.op = "deleteFeature" /\ RangeSpansKeyframes)
     => ShrinksAsClaimed(last'.frame)]_vars

\* C22: setType(t, c) with c >= 1 leaves confidencePairs equal to the
\* one-element list [[t, 1]], whatever labels the track held.
C22_SetTypeOneCollapses ==
  [][(calls' = calls + 1 /\ last'.op = "setType" /\ arg'[2] >= One)
     => confidencePairs' = <<<<arg'[1], One>>>>]_vars
\* the third call sets 'cat' with a confidence above 1, after two calls
C22_Witness ==
  /\ last.op = "setType"
  /\ arg = <<"cat", 2 * One, "">>
  /\ calls = 3
  /\ confidencePairs = <<<<"cat", One>>>>

\* C23: from a track with empty confidencePairs, after any sequence of
\* setType, removeTypes and merge calls, confidencePairs is sorted in
\* non-increasing order of confidence, holds no label twice and has at most
\* one entry with confidence 1.
NonIncreasing(pairs) ==
  \A i \in 1..Len(pairs) : \A j \in 1..Len(pairs) : i < j => pairs[i][2] >= pairs[j][2]
DistinctLabels(pairs) ==
  \A i \in 1..Len(pairs) : \A j \in 1..Len(pairs) : i # j => pairs[i][1] # pairs[j][1]
C23_PairsSortedDistinct ==
  /\ NonIncreasing(confidencePairs)
  /\ DistinctLabels(confidencePairs)
  /\ Cardinality({i \in 1..Len(confidencePairs) : confidencePairs[i][2] = One}) <= 1
\* three labels, the first with confidence 1, the last of them merged in
C23_Witness ==
  /\ last.op = "merge"
  /\ Len(confidencePairs) = 3
  /\ confidencePairs[1][2] = One
  /\ confidencePairs[2][2] > confidencePairs[3][2]

\* C24: from a track with empty confidencePairs, after any sequence of setType
\* calls with arbitrary numeric confidences, every stored confidence c
\* satisfies 0 < c <= 1.
C24_ConfidenceInRange ==
  \A i \in 1..Len(confidencePairs) :
    0 < confidencePairs[i][2] /\ confidencePairs[i][2] <= One

\* C28: for a confidencePairs list with distinct labels, setType(t, c, replace)
\* with c < 1 leaves exactly one entry for t, with confidence c; removes the
\* entry for replace when replace is given and differs from t; keeps every
\* other label with its previous confidence; and leaves the list sorted in
\* non-increasing order of confidence; stated for the confidences in (0, 1).
EntriesFor(pairs, label) == {i \in 1..Len(pairs) : pairs[i][1] = label}
SetTypeBelowOneAsClaimed(t, c, replace) ==
  LET gone == IF replace # "" /\ replace # t THEN {replace} ELSE {}
      kept == Labels(confidencePairs) \ ({t} \cup gone)
  IN  /\ Cardinality(EntriesFor(confidencePairs', t)) = 1
      /\ \A i \in EntriesFor(confidencePairs', t) : confidencePairs'[i][2] = c
      /\ \A label \in gone : label \notin Labels(confidencePairs')
      /\ Labels(confidencePairs') = kept \cup {t}
      /\ \A label \in kept :
           /\ Cardinality(EntriesFor(confidencePairs', label)) = 1
           /\ ConfidenceOf(confidencePairs', label) = ConfidenceOf(confidencePairs, label)
      /\ NonIncreasing(confidencePairs')
C28_SetTypeBelowOne ==
  [][(/\ calls' = calls + 1
      /\ last'.op = "setType"
      /\ 0 < arg'[2] /\ arg'[2] < One
      /\ DistinctLabels(confidencePairs))
     => SetTypeBelowOneAsClaimed(arg'[1], arg'[2], arg'[3])]_vars

\* C25: in every state reached by constructing a Track and applying setFeature
\* (calls that throw included), deleteFeature, toggleKeyframe,
\* toggleInterpolation and merge, serialize().features is in strictly
\* ascending frame order and every entry of it is a keyframe (keyframe true,
\* bounds present).
C25_SerializeOnlyKeyframes ==
  LET out == Serialize(This).features
  IN  /\ StrictlyAscending([k \in 1..Len(out) |-> out[k].frame])
      /\ \A k \in 1..Len(out) : Truthy(out[k].keyframe) /\ Has(out[k].bounds)

\* C26: trackExceedsThreshold(pairs, thresholds) returns, in input order,
\* exactly the pairs (label, value) with value >= T(label), where T(label) is
\* thresholds[label] whenever label is a key of thresholds (a threshold of 0
\* included), else thresholds.default when present, else 0.
ThresholdFor(thresholds, label) ==
  IF label \in DOMAIN thresholds THEN thresholds[label]
  ELSE IF "default" \in DOMAIN thresholds THEN thresholds["default"]
  ELSE 0
C26_ExceedsThreshold ==
  last.op = "trackExceedsThreshold"
    => ret = {SelectSeq(arg[1], LAMBDA p : p[2] >= ThresholdFor(arg[2], p[1]))}

\* C27: constructing a Track raises an error, and yields no Track, whenever a
\* supplied feature has keyframe without bounds or bounds without keyframe,
\* and whenever the first present entry of the supplied sparse array sits at
\* an index different from its frame number; otherwise construction succeeds
\* with featureIndex equal to the ascending list of frames of the supplied
\* keyframes.
KeyframeXorBounds(fs) == \E i \in DOMAIN fs : Truthy(fs[i].keyframe) # Has(fs[i].bounds)
FirstEntryMisplaced(fs) == DOMAIN fs # {} /\ fs[SetMin(DOMAIN fs)].frame # SetMin(DOMAIN fs)
SuppliedKeyframes(fs) == {fs[i].frame : i \in {j \in DOMAIN fs : Truthy(fs[j].keyframe)}}
ConstructedAsClaimed(fs) ==
  IF KeyframeXorBounds(fs) \/ FirstEntryMisplaced(fs)
  THEN last.err # NoError /\ ctor = "none"
  ELSE /\ last.err = NoError
       /\ ctor = "new"
       /\ featureIndex = Ascending(SuppliedKeyframes(fs))
C27_ConstructorChecks ==
  (last.op = "new" /\ ctor \in {"none", "new"}) => ConstructedAsClaimed(arg[1])

\* C29: toggleKeyframe(frame) at a frame with no exact feature: when
\* frame > end it creates a keyframe at frame that copies the bounds and other
\* fields of features[end], and end becomes frame; when frame < begin it
\* creates a keyframe at frame copying features[begin], and begin becomes
\* frame; when begin < frame < end and interpolation is disabled for that span
\* it changes nothing (no feature, bounds, index or revision change).  The
\* copy is compared with its bounds as setFeature rounds them on write; stated
\* for the states reached through calls that all returned normally and in
\* which every stored feature is a keyframe with bounds.
CopiedTo(frame, from) ==
  /\ from \in DOMAIN features
  /\ frame \in DOMAIN features'
  /\ features'[frame] =
       [features[from] EXCEPT !.frame = frame, !.keyframe = {TRUE},
                              !.bounds = {RoundBounds(Val(@))}]
  /\ frame \in SeqRange(featureIndex')
SpanDisabled(frame) ==
  LET below == {f \in Keyframes : f < frame}
  IN  below # {} /\ ~Truthy(features[SetMax(below)].interpolate)
ToggledAsClaimed(frame) ==
  /\ frame > end => (CopiedTo(frame, end) /\ end' = frame)
  /\ frame < begin => (CopiedTo(frame, begin) /\ begin' = frame)
  /\ (begin < frame /\ frame < end /\ SpanDisabled(frame))
       => UNCHANGED <<features, featureIndex, begin, end, revision>>
C29_ToggleKeyframeOffKeyframe ==
  [][(/\ calls' = calls + 1
      /\ last'.op = "toggleKeyframe"
      /\ last'.frame \notin DOMAIN features
      /\ Keyframes # {}
      /\ ~failed
      /\ AllKeyframes(features))
     => ToggledAsClaimed(last'.frame)]_vars

\* C30: on a track with at least one keyframe, after toggleInterpolation(frame)
\* the value canInterpolate(frame).interpolate is the negation of its value
\* before the call, exactly one keyframe's interpolate flag has changed (the
\* exact keyframe at frame if there is one, else the lower neighbour, else the
\* upper neighbour), and the set of keyframes, begin and end are unchanged; on
\* a track with no keyframes the call changes nothing.  Stated for the states
\* reached through calls that all returned normally and in which every stored
\* feature is a keyframe with bounds.
After == [trackId |-> trackId', attributes |-> attributes',
          confidencePairs |-> confidencePairs', features |-> features',
          featureIndex |-> featureIndex', begin |-> begin', end |-> end',
          revision |-> revision', notifier |-> notifier', notified |-> <<>>]
TargetKeyframe(frame) ==
  LET below == {f \in Keyframes : f < frame}
      above == {f \in Keyframes : f > frame}
  IN  IF frame \in Keyframes THEN frame
      ELSE IF below # {} THEN SetMax(below)
      ELSE SetMin(above)
InterpolationToggled(frame) ==
  /\ last'.err = NoError
  /\ CanInterpolate(After, frame).err = NoError
  /\ CanInterpolate(After, frame).interpolate = ~CanInterpolate(This, frame).interpolate
  /\ KeyframesOf(After) = Keyframes
  /\ {k \in Keyframes : Truthy(features'[k].interpolate) # Truthy(features[k].interpolate)}
       = {TargetKeyframe(frame)}
  /\ begin' = begin
  /\ end' = end
C30_ToggleInterpolation ==
  [][(/\ calls' = calls + 1
      /\ last'.op = "toggleInterpolation"
      /\ ~failed
      /\ AllKeyframes(features))
     => IF Keyframes # {} THEN InterpolationToggled(last'.frame)
        ELSE UNCHANGED <<features, featureIndex, begin, end, revision>>]_vars

\* C31: TypeList.headCheckClicked changes the checked status of visible types
\* only: when no visible type is checked (headCheckState = 0) the new checked
\* set is the old checked set plus every visible type, otherwise it is the old
\* checked set minus every visible type; every type that is not visible keeps
\* its checked status.
C31_HeadCheckVisibleOnly ==
  [][last'.op = "headCheckClicked"
     => LET visible == Range(VisibleTypes(typeList))
            checked == Range(typeList.checkedTypes)
            after == Range(typeList'.checkedTypes)
        IN  /\ (HeadCheckState(typeList) = 0) = (visible \cap checked = {} /\ visible # {})
            /\ IF visible \cap checked = {} THEN after = checked \cup visible
               ELSE after = checked \ visible
            /\ \A type \in Range(typeList.allTypes) \ visible :
                 (type \in after) = (type \in checked)]_vars
\* the head checkbox has checked the visible types while Fish, filtered out of
\* view, stays checked
C31_Witness ==
  /\ last.op = "headCheckClicked"
  /\ typeList.filterText = <<"o">>
  /\ Fish \notin Range(VisibleTypes(typeList))
  /\ VisibleTypes(typeList) # <<>>
  /\ Range(typeList.checkedTypes) = {Fish} \cup Range(VisibleTypes(typeList))

\* C32: from a track with at least one keyframe whose begin and end are its
\* first and last keyframes, no successful toggleKeyframe leaves the track with
\* zero keyframes; and for tracks built by setFeature on a track constructed
\* with placeholder begin/end, toggleKeyframe never removes the track's only
\* keyframe.
C32_ToggleKeepsAKeyframe ==
  [][(calls' = calls + 1 /\ last'.op = "toggleKeyframe" /\ ~failed /\ Keyframes # {})
     => /\ (RangeSpansKeyframes /\ last'.err = NoError) => KeyframesOf(After) # {}
        /\ (ctor = "placeholder" /\ last.op = "setFeature")
             => KeyframesOf(After) # {}]_vars

\* C33: split(frame, id1, id2), whether it succeeds or raises, leaves the
\* source track unchanged: its features, featureIndex, begin, end,
\* confidencePairs, attributes and revision are the same after the call, and
\* no notification is emitted on the source track.
C33_SplitLeavesSource ==
  [][last'.op = "split"
     => /\ features' = features
        /\ featureIndex' = featureIndex
        /\ begin' = begin
        /\ end' = end
        /\ confidencePairs' = confidencePairs
        /\ attributes' = attributes
        /\ revision' = revision
        /\ notified' = <<>>]_vars
C33_Witness ==
  /\ last.op = "split"
  /\ last.err = NoError
  /\ notifier
  /\ Len(featureIndex) > 1
  /\ revision > 1

\* C34: for a track with consecutive keyframes A and B where A.interpolate is
\* true and a frame strictly between them, calling toggleKeyframe(frame) twice
\* restores the track: the first call adds a keyframe at frame, the second
\* removes it, and afterwards the set of keyframes, every stored feature,
\* featureIndex, begin and end equal their values before the first call.
BetweenInterpolating(t, frame) ==
  \E a \in KeyframesOf(t) : \E b \in KeyframesOf(t) :
    /\ a < frame
    /\ frame < b
    /\ \A k \in KeyframesOf(t) : ~(a < k /\ k < b)
    /\ Truthy(t.features[a].interpolate)
C34_ToggleTwiceRestores ==
  [][(Len(prior) = 1 /\ Len(prior') = 2 /\ BetweenInterpolating(prior[1], last.frame))
     => /\ last.frame \in Keyframes
        /\ last.frame \notin KeyframesOf(After)
        /\ KeyframesOf(After) = KeyframesOf(prior[1])
        /\ features' = prior[1].features
        /\ featureIndex' = prior[1].featureIndex
        /\ begin' = prior[1].begin
        /\ end' = prior[1].end]_vars

\* C35: when the keyframe toggle is triggered through TrackItem (its
\* toggleKeyframe handler guarded by keyframeDisabled), Track.toggleKeyframe
\* never raises the 'only keyframe cannot be removed' error, for every track
\* state reachable through Track's public operations and every current frame.
C35_GuardedToggleNeverOnlyKeyframe ==
  last.op = "TrackItem.toggleKeyframe" => last.err # ErrOnlyKeyframe

\* C36: in TrackItem, under every interleaving of blur, focus, key and
\* prop-change events with the 100 ms deferred callback scheduled by onBlur,
\* handler.trackTypeChange is never invoked with an empty or whitespace-only
\* type, and the type it is invoked with is the value the input held when the
\* blur occurred; stated for the free-form text input, where it already fails.
C36_TypeChangeAsBlurred ==
  ~trackItem.lockTypes =>
    \A c \in trackItem.changed :
      /\ Trim(c.type) # <<>>
      /\ c.type = c.held

\* C37: the types passed to removeTypeTracks on confirmation are exactly the
\* types that were listed in the confirmation prompt, whatever changes of the
\* checked types happen while the prompt is pending, and removeTypeTracks is
\* not called when the prompt is declined.
C37_DeleteWhatWasListed ==
  (typeList # <<>> /\ last.op = "prompt")
    => IF arg[1] THEN typeList.removed = {typeList.listed}
       ELSE typeList.removed = {}

\* C38: in the Control component, while dragging is true no change of
\* mediaController.frame modifies data.frame (only slider input does); while
\* dragging is false every change of mediaController.frame sets data.frame to
\* the new frame; and input(value) calls mediaController.seek(value) only when
\* value differs from the controller's current frame.
C38_ControlFollowsFrame ==
  [][/\ (last'.op = "frame" /\ control.dragging) => control'.frame = control.frame
     /\ (last'.op = "frame" /\ ~control.dragging) => control'.frame = control'.controllerFrame
     /\ last'.op = "input" =>
          /\ control'.sought = IF arg'[1] # control.controllerFrame THEN {arg'[1]} ELSE {}
          /\ control'.frame = arg'[1]]_vars
\* the controller moved to frame 1 during a drag and the slider stayed at 2
C38_Witness ==
  /\ last.op = "frame"
  /\ control.dragging
  /\ control.controllerFrame = 1
  /\ control.frame = 2

====
